---- MODULE Spec2Model ----
(***************************************************************************)
(* Model of the channels audio mixer: the Channels root (channel registry, *)
(* registry of playing sounds, play / stopAll / createChannel), the        *)
(* Channel forwarding methods and the VolumeNodes volume controller.       *)
(***************************************************************************)
EXTENDS Integers, Sequences, FiniteSets, TLC

\* ---------------------------------------------------------------- bounds
\* Number of PlayingSound instances constructed in one behaviour.
MaxPlays == 3
\* Largest volume a caller passes (volumes are whole gain units here).
MaxVolume == 3
\* Number of fades started on one controller in one behaviour.
MaxFades == 2

\* ---------------------------------------------------------------- inputs
\* Samples known to the sample manager, and a name it does not know.
SoundNames == {"a"}
UnknownSound == "zzz"
SoundNameInputs == SoundNames \cup {UnknownSound}

\* Channel names a caller passes: two ordinary names, the blank name, and a
\* name that every JavaScript object inherits from Object.prototype.
ObjectPrototypeKeys == {"constructor"}
ChannelNameInputs == {"fx", "music", "", "constructor"}
ChannelTypes == {"monophonic", "polyphonic"}

\* ------------------------------------------------------- JavaScript values
\* Values that flow through the `channel` parameter and the channel map, in
\* one record shape: undefined, a string, a Channel instance, or the function
\* found under an inherited property name.
Undefined == [kind |-> "undefined", name |-> "", type |-> "undefined"]
Str(s) == [kind |-> "string", name |-> s, type |-> "undefined"]
ChannelObj(n, t) == [kind |-> "Channel", name |-> n, type |-> t]
InheritedMember(k) == [kind |-> "function", name |-> k, type |-> "undefined"]
Truthy(v) == v.kind # "undefined" /\ v # Str("")

VARIABLES
    channelsByName,      \* Channels.channelsByName: own properties only
    channelVolumeNodes,  \* Channel.volumeNodes of every registered channel
    playingSounds,       \* Channels.playingSounds, in play order
    constructed,         \* number of PlayingSound instances constructed so far
    events,              \* events dispatched by the last operation, in order
    last,                \* the last operation, its arguments and its outcome
    vn,                  \* a VolumeNodes instance on its own; where channels
                         \* are created, Channels.volumeNodes (the master)
    zeroVia,             \* how vn's volume last became 0
    volumeAtMute,        \* getVolume() of vn just before that happened
    fades,               \* number of fades started on vn
    callbacks,           \* the onComplete callbacks invoked so far, in order
    requested,           \* the onComplete callbacks passed to fades so far
    superseded           \* callbacks of fades replaced before they completed

vars == <<channelsByName, channelVolumeNodes, playingSounds, constructed,
          events, last, vn, zeroVia, volumeAtMute, fades, callbacks,
          requested, superseded>>

mixerVars == <<channelsByName, channelVolumeNodes, playingSounds, constructed>>
nodeVars == <<vn, zeroVia, volumeAtMute, fades, callbacks, requested, superseded>>

\* ------------------------------------------------------------ VolumeNodes
\* The fade gain is counted in quarters, so that the value of a ramp is a
\* whole number at every tick: FadeOne is the gain 1.
FadeOne == 4

\* The automation of the fade gain parameter: a linear ramp from one value
\* to another over `duration` ticks, `elapsed` of which have passed
\* (duration 0: no ramp is scheduled).
NoRamp == [from |-> 0, target |-> 0, duration |-> 0, elapsed |-> 0]

\* One controller: gain.value of the volume stage, gain.value of the fade
\* stage, volumeValueBeforeMute (the empty set stands for undefined), the
\* ramp scheduled on the fade gain and the pending completion timers.
VolumeNodesRec(v, f, b) ==
    [volume |-> v, fadeVolume |-> f, volumeValueBeforeMute |-> b,
     ramp |-> NoRamp, timers |-> {}]

Event(type, seen) == [type |-> type, seen |-> seen]

\* An operation's outcome: the new controller, the events it dispatched and
\* the error it threw ("none" when it returned normally).
NodeOutcome(n, ev, err) == [node |-> n, events |-> ev, err |-> err]

getVolume(n) == n.volume
getFadeVolume(n) == n.fadeVolume

\* dispatchVolumeChange: the listener runs during the call, so it sees the
\* volume the gain node holds at that moment.
dispatchVolumeChange(n) == <<Event("VOLUME_CHANGE", getVolume(n))>>

setVolumeNoCheck(n, value) ==
    NodeOutcome([n EXCEPT !.volume = value,
                          !.volumeValueBeforeMute = IF value = 0 THEN {1} ELSE {}],
                dispatchVolumeChange(n), "none")

setVolumeKeepsMarker(n, value) ==
    IF value < 0 THEN NodeOutcome(n, <<>>, "InvalidArgument")
    ELSE IF value = n.volume THEN NodeOutcome(n, <<>>, "none")
    ELSE NodeOutcome([n EXCEPT !.volume = value,
                               !.volumeValueBeforeMute = IF value = 0 THEN @ ELSE {}],
                     dispatchVolumeChange(n), "none")

setVolumeNoEqualGuard(n, value) ==
    IF value < 0 THEN NodeOutcome(n, <<>>, "InvalidArgument")
    ELSE NodeOutcome([n EXCEPT !.volume = value,
                               !.volumeValueBeforeMute = IF value = n.volume THEN @
                                                         ELSE IF value = 0 THEN {1} ELSE {}],
                     dispatchVolumeChange(n), "none")

setVolume(n, value) ==
    IF value < 0 THEN NodeOutcome(n, <<>>, "InvalidArgument")
    ELSE IF value = n.volume THEN NodeOutcome(n, <<>>, "none")
    ELSE NodeOutcome([n EXCEPT !.volume = value,
                               !.volumeValueBeforeMute = IF value = 0 THEN {1} ELSE {}],
                     dispatchVolumeChange(n), "none")

muteForgets(n) ==
    IF getVolume(n) > 0
    THEN LET m == [n EXCEPT !.volume = 0] IN NodeOutcome(m, dispatchVolumeChange(m), "none")
    ELSE NodeOutcome(n, <<>>, "none")

muteAlways(n) ==
    LET m == [n EXCEPT !.volumeValueBeforeMute = {getVolume(n)}, !.volume = 0]
    IN NodeOutcome(m, dispatchVolumeChange(m), "none")

muteCancelsFade(n) ==
    LET volume == getVolume(n) IN
    IF volume > 0
    THEN LET m == [n EXCEPT !.volumeValueBeforeMute = {volume}, !.volume = 0,
                            !.ramp = NoRamp, !.timers = {}]
         IN NodeOutcome(m, dispatchVolumeChange(m), "none")
    ELSE NodeOutcome(n, <<>>, "none")

mute(n) ==
    LET volume == getVolume(n) IN
    IF volume > 0
    THEN LET m == [n EXCEPT !.volumeValueBeforeMute = {volume}, !.volume = 0]
         IN NodeOutcome(m, dispatchVolumeChange(m), "none")
    ELSE NodeOutcome(n, <<>>, "none")

\* volumeValueBeforeMute ?? 1
OrOne(b) == IF b = {} THEN 1 ELSE CHOOSE x \in b : TRUE

unmute(n) ==
    IF getVolume(n) = 0
    THEN LET m == [n EXCEPT !.volume = OrOne(n.volumeValueBeforeMute)]
         IN NodeOutcome(m, dispatchVolumeChange(m), "none")
    ELSE NodeOutcome(n, <<>>, "none")

\* tweenAudioParamToValue(param, value, duration, onComplete): cancels what
\* was scheduled, schedules a linear ramp from the current value to `value`
\* and arranges for onComplete (0: none given) to be called at its end.
tweenAudioParamToValue(n, value, duration, onComplete) ==
    [n EXCEPT !.ramp = [from |-> n.fadeVolume, target |-> value,
                        duration |-> duration, elapsed |-> 0],
              !.timers = IF onComplete = 0 THEN {}
                         ELSE {[callback |-> onComplete, remaining |-> duration]}]

fadeToDropsCallback(n, value, duration, onComplete) ==
    tweenAudioParamToValue(n, value, duration, 0)

fadeTo(n, value, duration, onComplete) ==
    tweenAudioParamToValue(n, value, duration, onComplete)

fadeOut(n, duration, onComplete) == fadeTo(n, 0, duration, onComplete)
fadeIn(n, duration, onComplete) == fadeTo(n, FadeOne, duration, onComplete)

\* The value of the fade gain on its ramp.
rampValue(r) ==
    IF r.elapsed >= r.duration THEN r.target
    ELSE r.from + ((r.target - r.from) * r.elapsed) \div r.duration

\* One tick of the audio clock: the ramp moves on (and is over at its end),
\* and the timers that run out are due.
advanceRamp(n) ==
    IF n.ramp.duration = 0 THEN n
    ELSE LET r == [n.ramp EXCEPT !.elapsed = @ + 1]
         IN [n EXCEPT !.fadeVolume = rampValue(r),
                      !.ramp = IF r.elapsed >= r.duration THEN NoRamp ELSE r]

due(n) == {t \in n.timers : t.remaining <= 1}

advance(n) ==
    [advanceRamp(n) EXCEPT
        !.timers = {[t EXCEPT !.remaining = @ - 1] : t \in n.timers \ due(n)}]

\* The constructor: both gain nodes start at the Web Audio default gain of 1,
\* then setVolume(volume) and the fade gain is assigned.
DefaultVolume == 1
NewVolumeNodes(volume, fadeVolume) ==
    LET r == setVolume(VolumeNodesRec(1, FadeOne, {}), volume)
    IN NodeOutcome([r.node EXCEPT !.fadeVolume = fadeVolume], r.events, r.err)


\* --------------------------------------------------------------- Channels
\* Outcome of a Channels operation on the registry of playing sounds.
Outcome(reg, ev, err) == [playingSounds |-> reg, events |-> ev, err |-> err]

\* sampleManager.getSampleByName(name): the sample, or undefined.
getSampleByName(name) == IF name \in SoundNames THEN Str(name) ELSE Undefined

\* this.channelsByName[key]: a property read on an object literal, which
\* finds own properties first and then those of Object.prototype.
ChannelsByNameGet(key) ==
    IF key \in DOMAIN channelsByName THEN channelsByName[key]
    ELSE IF key \in ObjectPrototypeKeys THEN InheritedMember(key)
    ELSE Undefined

\* getChannels(): Object.keys lists own properties only.
getChannels == {channelsByName[k] : k \in DOMAIN channelsByName}

\* Array.prototype.indexOf (0-based, -1 when absent) and splice(index, 1).
indexOf(seq, x) ==
    IF \E i \in 1..Len(seq) : seq[i] = x
    THEN (CHOOSE i \in 1..Len(seq) : seq[i] = x /\ \A j \in 1..(i - 1) : seq[j] # x) - 1
    ELSE -1

\* Removal by moving the last element into the gap.
spliceSwap(seq, index) ==
    [i \in 1..(Len(seq) - 1) |-> IF i = index + 1 THEN seq[Len(seq)] ELSE seq[i]]

splice(seq, index) ==
    [i \in 1..(Len(seq) - 1) |-> IF i <= index THEN seq[i] ELSE seq[i + 1]]

PlayingSoundsUpdated(reg) == Event("PLAYING_SOUNDS_UPDATED", Len(reg))

\* A PlayingSound is an object: the registry holds references, and indexOf
\* compares references. An instance is referred to by its id (the order of
\* construction); the registry entry carries the instance's fields.
Refs(reg) == [i \in 1..Len(reg) |-> reg[i].id]

removeSilently(reg, playingSound) ==
    LET index == indexOf(Refs(reg), playingSound) IN
    IF index > -1
    THEN Outcome(splice(reg, index), <<PlayingSoundsUpdated(splice(reg, index))>>, "none")
    ELSE Outcome(reg, <<>>, "none")

removePlayingSound(reg, playingSound) ==
    LET index == indexOf(Refs(reg), playingSound) IN
    IF index > -1
    THEN Outcome(splice(reg, index), <<PlayingSoundsUpdated(splice(reg, index))>>, "none")
    ELSE Outcome(reg, <<>>, "NotRegistered")

\* PlayingSound.stop(): stops the audio source and deregisters the instance
\* from the Channels instance that created it.
stop(reg, playingSound) == removePlayingSound(reg, playingSound)

\* getOptionalChannelByNameOrInstance(channel)
Resolved(value, err) == [value |-> value, err |-> err]

getOptionalChannelByNameOrInstance(channel) ==
    IF channel.kind = "string" /\ ~Truthy(ChannelsByNameGet(channel.name))
    THEN Resolved(Undefined, "ChannelNotFound")
    ELSE IF channel.kind = "string" THEN Resolved(ChannelsByNameGet(channel.name), "none")
    ELSE Resolved(channel, "none")

\* filter(...) of stopAll: the instances to stop, in registry order.
stopAllFilter(reg, channelToStop) ==
    SelectSeq(reg, LAMBDA p : IF Truthy(channelToStop) THEN p.channel = channelToStop ELSE TRUE)

\* forEach(playingSound => playingSound.stop()): an exception ends the loop.
RECURSIVE stopEach(_, _)
stopEach(todo, out) ==
    IF todo = <<>> \/ out.err # "none" THEN out
    ELSE LET r == stop(out.playingSounds, Head(todo))
         IN stopEach(Tail(todo), Outcome(r.playingSounds, out.events \o r.events, r.err))

stopEachOf(matched, reg) == stopEach(Refs(matched), Outcome(reg, <<>>, "none"))

stopAllEverything(reg, channel) ==
    LET r == getOptionalChannelByNameOrInstance(channel) IN
    IF r.err # "none" THEN Outcome(reg, <<>>, r.err)
    ELSE stopEachOf(reg, reg)

stopAll(reg, channel) ==
    LET r == getOptionalChannelByNameOrInstance(channel) IN
    IF r.err # "none" THEN Outcome(reg, <<>>, r.err)
    ELSE stopEachOf(stopAllFilter(reg, r.value), reg)

\* The id the next constructed PlayingSound gets (its object identity).
NextId == constructed + 1

\* play(name, {channel}): the outcome, and the set holding the instance it
\* constructed (empty when it threw before constructing one).
PlayOutcome(reg, ev, err, made) ==
    [playingSounds |-> reg, events |-> ev, err |-> err, made |-> made]

NewPlayingSound(name, channelForSound) ==
    [id |-> NextId, sound |-> name, channel |-> channelForSound]

playPushesTwice(reg, name, channel) ==
    LET sound == getSampleByName(name) IN
    IF ~Truthy(sound) THEN PlayOutcome(reg, <<>>, "SampleNotFound", {})
    ELSE LET r == getOptionalChannelByNameOrInstance(channel) IN
         IF r.err # "none" THEN PlayOutcome(reg, <<>>, r.err, {})
         ELSE LET playingSound == NewPlayingSound(name, r.value)
                  stolen == IF r.value.type = "monophonic"
                            THEN stopAll(Append(reg, playingSound), channel)
                            ELSE Outcome(Append(reg, playingSound), <<>>, "none")
                  pushed == Append(stolen.playingSounds, playingSound)
              IN PlayOutcome(pushed, stolen.events \o <<PlayingSoundsUpdated(pushed)>>,
                             stolen.err, {playingSound})

playNoSteal(reg, name, channel) ==
    LET sound == getSampleByName(name) IN
    IF ~Truthy(sound) THEN PlayOutcome(reg, <<>>, "SampleNotFound", {})
    ELSE LET r == getOptionalChannelByNameOrInstance(channel) IN
         IF r.err # "none" THEN PlayOutcome(reg, <<>>, r.err, {})
         ELSE LET playingSound == NewPlayingSound(name, r.value)
                  pushed == Append(reg, playingSound)
              IN PlayOutcome(pushed, <<PlayingSoundsUpdated(pushed)>>, "none", {playingSound})

play(reg, name, channel) ==
    LET sound == getSampleByName(name) IN
    IF ~Truthy(sound) THEN PlayOutcome(reg, <<>>, "SampleNotFound", {})
    ELSE LET r == getOptionalChannelByNameOrInstance(channel) IN
         IF r.err # "none" THEN PlayOutcome(reg, <<>>, r.err, {})
         ELSE LET playingSound == NewPlayingSound(name, r.value)
                  stolen == IF r.value.type = "monophonic"
                            THEN stopAll(reg, channel)
                            ELSE Outcome(reg, <<>>, "none")
              IN IF stolen.err # "none"
                 THEN PlayOutcome(stolen.playingSounds, stolen.events, stolen.err,
                                  {playingSound})
                 ELSE LET pushed == Append(stolen.playingSounds, playingSound)
                      IN PlayOutcome(pushed,
                                     stolen.events \o <<PlayingSoundsUpdated(pushed)>>,
                                     "none", {playingSound})


\* createChannel(name, {type, volume}): the new channel map, the volume
\* controllers of the channels, the events and the error.
ChannelsOutcome(map, nodes, ev, err) ==
    [channelsByName |-> map, channelVolumeNodes |-> nodes, events |-> ev, err |-> err]

ChannelsUpdated(map) == Event("CHANNELS_UPDATED", Cardinality(DOMAIN map))

createChannelOverwrites(name, type, volume) ==
    IF name = "" THEN ChannelsOutcome(channelsByName, channelVolumeNodes, <<>>, "InvalidArgument")
    ELSE LET made == NewVolumeNodes(volume, FadeOne) IN
         IF made.err # "none"
         THEN ChannelsOutcome(channelsByName, channelVolumeNodes, <<>>, made.err)
         ELSE LET map == (name :> ChannelObj(name, type)) @@ channelsByName
              IN ChannelsOutcome(map, (name :> made.node) @@ channelVolumeNodes,
                                 made.events \o <<ChannelsUpdated(map)>>, "none")

createChannelForgets(name, type, volume) ==
    IF name = "" THEN ChannelsOutcome(channelsByName, channelVolumeNodes, <<>>, "InvalidArgument")
    ELSE IF Truthy(ChannelsByNameGet(name))
    THEN ChannelsOutcome(channelsByName, channelVolumeNodes, <<>>, "DuplicateChannel")
    ELSE LET made == NewVolumeNodes(volume, FadeOne) IN
         IF made.err # "none"
         THEN ChannelsOutcome(channelsByName, channelVolumeNodes, <<>>, made.err)
         ELSE LET map == (name :> ChannelObj(name, type))
              IN ChannelsOutcome(map, (name :> made.node),
                                 made.events \o <<ChannelsUpdated(map)>>, "none")

createChannel(name, type, volume) ==
    IF name = "" THEN ChannelsOutcome(channelsByName, channelVolumeNodes, <<>>, "InvalidArgument")
    ELSE IF Truthy(ChannelsByNameGet(name))
    THEN ChannelsOutcome(channelsByName, channelVolumeNodes, <<>>, "DuplicateChannel")
    ELSE LET made == NewVolumeNodes(volume, FadeOne) IN
         IF made.err # "none"
         THEN ChannelsOutcome(channelsByName, channelVolumeNodes, <<>>, made.err)
         ELSE LET map == (name :> ChannelObj(name, type)) @@ channelsByName
              IN ChannelsOutcome(map, (name :> made.node) @@ channelVolumeNodes,
                                 made.events \o <<ChannelsUpdated(map)>>, "none")

\* getPlayingSounds(): [...this.playingSounds] is a new array with the same
\* elements; sameArray tells whether the caller holds the registry itself.
getPlayingSounds(reg) == [list |-> reg, sameArray |-> FALSE]

\* getChannel(channelName)
getChannel(channelName) ==
    LET channel == ChannelsByNameGet(channelName) IN
    IF ~Truthy(channel) THEN Resolved(Undefined, "ChannelNotFound")
    ELSE Resolved(channel, "none")

\* The outcome of an operation on the volume controllers of a Channels
\* instance: the master controller, the channels' controllers, the events
\* dispatched, the error thrown and the value returned (0 when there is none).
MixOutcome(master, nodes, ev, err, value) ==
    [master |-> master, nodes |-> nodes, events |-> ev, err |-> err, value |-> value]

\* The volumeNodes property of a value: a Channel has one, a function
\* inherited from Object.prototype has none, and ?. gives undefined on undefined.
VolumeNodesOf(value) == IF value.kind = "Channel" THEN value ELSE Undefined

\* getVolumeNodes({channel}): the controller is named by the Channel it
\* belongs to, Undefined naming this.volumeNodes.
getVolumeNodesMaster(channel) ==
    LET r == getOptionalChannelByNameOrInstance(channel) IN
    Resolved(Undefined, r.err)

getVolumeNodes(channel) ==
    LET r == getOptionalChannelByNameOrInstance(channel) IN
    IF r.err # "none" THEN r
    ELSE IF Truthy(VolumeNodesOf(r.value)) THEN Resolved(VolumeNodesOf(r.value), "none")
    ELSE Resolved(Undefined, "none")

NodesAt(owner) ==
    IF owner.kind = "Channel" THEN channelVolumeNodes[owner.name] ELSE vn

\* An operation of the controller of `owner` with outcome o, as it shows on
\* the Channels instance.
OnNodes(owner, o, value) ==
    IF owner.kind = "Channel"
    THEN MixOutcome(vn, [channelVolumeNodes EXCEPT ![owner.name] = o.node],
                    o.events, o.err, value)
    ELSE MixOutcome(o.node, channelVolumeNodes, o.events, o.err, value)

NotRouted(err) == MixOutcome(vn, channelVolumeNodes, <<>>, err, 0)

\* The volume accessor of VolumeNodes.
volumeGet(n) == getVolume(n)
volumeSet(n, value) == setVolume(n, value)

\* Channels.getVolume / setVolume / setMute
channelsGetVolume(channel) ==
    LET r == getVolumeNodes(channel) IN
    IF r.err # "none" THEN NotRouted(r.err)
    ELSE MixOutcome(vn, channelVolumeNodes, <<>>, "none", volumeGet(NodesAt(r.value)))

channelsSetVolume(value, channel) ==
    LET r == getVolumeNodes(channel) IN
    IF r.err # "none" THEN NotRouted(r.err)
    ELSE OnNodes(r.value, volumeSet(NodesAt(r.value), value), 0)

channelsSetMute(value, channel) ==
    LET r == getVolumeNodes(channel) IN
    IF r.err # "none" THEN NotRouted(r.err)
    ELSE IF value THEN OnNodes(r.value, mute(NodesAt(r.value)), 0)
    ELSE OnNodes(r.value, unmute(NodesAt(r.value)), 0)

\* Channel.getVolume / setVolume / mute / unmute
channelGetVolume(c) ==
    MixOutcome(vn, channelVolumeNodes, <<>>, "none", getVolume(NodesAt(c)))
channelSetVolume(c, value) == OnNodes(c, setVolume(NodesAt(c), value), 0)
channelMute(c) == OnNodes(c, mute(NodesAt(c)), 0)
channelUnmute(c) == OnNodes(c, unmute(NodesAt(c)), 0)

\* ------------------------------------------------------------ state machine
\* What the last operation was: its name, the channel name passed to
\* createChannel, the id of the PlayingSound it was called on or constructed
\* (0 when there is none), the volume passed (0 when it takes none) and the
\* error it threw.
Op(op, name, target, value, err) ==
    [op |-> op, name |-> name, target |-> target, value |-> value, err |-> err]

IdOf(made) == IF made = {} THEN 0 ELSE (CHOOSE p \in made : TRUE).id

\* The selectors a caller can pass: nothing, a name, or a Channel instance
\* obtained from createChannel / getChannels.
ChannelInputs == {Undefined} \cup {Str(n) : n \in ChannelNameInputs} \cup getChannels

EmptyMap == [k \in {} |-> Undefined]

Init ==
    /\ channelsByName = EmptyMap
    /\ channelVolumeNodes = EmptyMap
    /\ playingSounds = <<>>
    /\ constructed = 0
    /\ events = <<>>
    /\ last = Op("new", "", 0, 0, "none")
    /\ vn = NewVolumeNodes(DefaultVolume, FadeOne).node
    /\ zeroVia = "none"
    /\ volumeAtMute = 0
    /\ fades = 0
    /\ callbacks = <<>>
    /\ requested = {}
    /\ superseded = {}

CreateChannel(name, type, volume) ==
    LET r == createChannel(name, type, volume) IN
    /\ channelsByName' = r.channelsByName
    /\ channelVolumeNodes' = r.channelVolumeNodes
    /\ events' = r.events
    /\ last' = Op("createChannel", name, 0, 0, r.err)
    /\ UNCHANGED <<playingSounds, constructed, nodeVars>>

PlayAs(op, name, channel) ==
    LET r == play(playingSounds, name, channel) IN
    /\ constructed < MaxPlays
    /\ playingSounds' = r.playingSounds
    /\ constructed' = constructed + Cardinality(r.made)
    /\ events' = r.events
    /\ last' = Op(op, "", IdOf(r.made), 0, r.err)
    /\ UNCHANGED <<channelsByName, channelVolumeNodes, nodeVars>>

Play(name, channel) == PlayAs("play", name, channel)

\* Channel.play(name): forwards with the channel's own name as selector.
ChannelPlay(c, name) == PlayAs("play", name, Str(c.name))

StopAllAs(op, channel) ==
    LET r == stopAll(playingSounds, channel) IN
    /\ playingSounds' = r.playingSounds
    /\ events' = r.events
    /\ last' = Op(op, "", 0, 0, r.err)
    /\ UNCHANGED <<channelsByName, channelVolumeNodes, constructed, nodeVars>>

StopAll(channel) == StopAllAs("stopAll", channel)

\* Channel.stopAll(): forwards with the channel's own name as selector.
ChannelStopAll(c) == StopAllAs("stopAll", Str(c.name))

\* The instances a caller can hold: play returned each of them.
Constructed == 1..constructed

\* playingSound.stop() on any instance a caller still holds.
Stop(p) ==
    LET r == stop(playingSounds, p) IN
    /\ playingSounds' = r.playingSounds
    /\ events' = r.events
    /\ last' = Op("stop", "", p, 0, r.err)
    /\ UNCHANGED <<channelsByName, channelVolumeNodes, constructed, nodeVars>>

\* channels.removePlayingSound(playingSound), called directly.
RemovePlayingSound(p) ==
    LET r == removePlayingSound(playingSounds, p) IN
    /\ playingSounds' = r.playingSounds
    /\ events' = r.events
    /\ last' = Op("removePlayingSound", "", p, 0, r.err)
    /\ UNCHANGED <<channelsByName, channelVolumeNodes, constructed, nodeVars>>

\* const list = channels.getPlayingSounds(); list.pop(): the caller changes
\* the array it was given.
GetPlayingSounds ==
    LET r == getPlayingSounds(playingSounds) IN
    /\ playingSounds' = IF r.sameArray THEN SubSeq(r.list, 1, Len(r.list) - 1)
                        ELSE playingSounds
    /\ events' = <<>>
    /\ last' = Op("getPlayingSounds", "", 0, Len(r.list), "none")
    /\ UNCHANGED <<channelsByName, channelVolumeNodes, constructed, nodeVars>>

\* The playback machine: channels are created with the default volume or
\* with a negative one, sounds are played and stopped.
CreateVolumes == {-1, DefaultVolume}

Next ==
    \/ \E name \in ChannelNameInputs, type \in ChannelTypes, volume \in CreateVolumes :
           CreateChannel(name, type, volume)
    \/ \E name \in SoundNameInputs, channel \in ChannelInputs : Play(name, channel)
    \/ \E c \in getChannels, name \in SoundNameInputs : ChannelPlay(c, name)
    \/ \E channel \in ChannelInputs : StopAll(channel)
    \/ \E c \in getChannels : ChannelStopAll(c)
    \/ \E p \in Constructed : Stop(p)
    \/ \E p \in Constructed : RemovePlayingSound(p)
    \/ GetPlayingSounds

Spec == Init /\ [][Next]_vars

\* ------------------------------------------------ volume routed by selector
\* An operation on the volume controllers, called with `name` as (the name
\* of) its selector.
Routed(op, name, value, r) ==
    /\ vn' = r.master
    /\ channelVolumeNodes' = r.nodes
    /\ events' = r.events
    /\ last' = Op(op, name, 0, value, r.err)
    /\ UNCHANGED <<channelsByName, playingSounds, constructed,
                   zeroVia, volumeAtMute, fades, callbacks, requested, superseded>>

ChannelsGetVolume(channel) ==
    LET r == channelsGetVolume(channel) IN Routed("getVolume", channel.name, r.value, r)
ChannelsSetVolume(value, channel) ==
    Routed("setVolume", channel.name, value, channelsSetVolume(value, channel))
ChannelsSetMute(value, channel) ==
    Routed(IF value THEN "mute" ELSE "unmute", channel.name, 0,
           channelsSetMute(value, channel))

ChannelGetVolume(c) ==
    LET r == channelGetVolume(c) IN Routed("channel.getVolume", c.name, r.value, r)
ChannelSetVolume(c, value) ==
    Routed("channel.setVolume", c.name, value, channelSetVolume(c, value))
ChannelMute(c) == Routed("channel.mute", c.name, 0, channelMute(c))
ChannelUnmute(c) == Routed("channel.unmute", c.name, 0, channelUnmute(c))

GetChannel(channelName) ==
    /\ events' = <<>>
    /\ last' = Op("getChannel", channelName, 0, 0, getChannel(channelName).err)
    /\ UNCHANGED <<mixerVars, nodeVars>>

\* Volumes a channel is created with and volumes set afterwards.
MixerVolumes == {-1, 0, DefaultVolume, MaxVolume}

MixerNext ==
    \/ \E name \in ChannelNameInputs, volume \in MixerVolumes :
           CreateChannel(name, "polyphonic", volume)
    \/ \E channel \in ChannelInputs : ChannelsGetVolume(channel)
    \/ \E value \in MixerVolumes, channel \in ChannelInputs :
           ChannelsSetVolume(value, channel)
    \/ \E value \in BOOLEAN, channel \in ChannelInputs : ChannelsSetMute(value, channel)
    \/ \E c \in getChannels : ChannelGetVolume(c)
    \/ \E c \in getChannels, value \in MixerVolumes : ChannelSetVolume(c, value)
    \/ \E c \in getChannels : ChannelMute(c)
    \/ \E c \in getChannels : ChannelUnmute(c)
    \/ \E channelName \in ChannelNameInputs : GetChannel(channelName)
    \/ \E channel \in ChannelInputs : StopAll(channel)

MixerSpec == Init /\ [][MixerNext]_vars

\* The channel registry on its own: createChannel with every volume.
VolumeInputs == -1..MaxVolume

RegistryNext ==
    \E name \in ChannelNameInputs, type \in ChannelTypes, volume \in VolumeInputs :
        CreateChannel(name, type, volume)

RegistrySpec == Init /\ [][RegistryNext]_vars

\* ------------------------------------------------- one VolumeNodes instance
\* new VolumeNodes(ctx, dispatcher, target, volume, fadeVolume)
FadeInputs == {0, FadeOne, 2 * FadeOne}

NodeInit ==
    /\ channelsByName = EmptyMap
    /\ channelVolumeNodes = EmptyMap
    /\ playingSounds = <<>>
    /\ constructed = 0
    /\ \E volume \in 0..MaxVolume, fadeVolume \in FadeInputs :
           LET r == NewVolumeNodes(volume, fadeVolume) IN
           /\ vn = r.node
           /\ events = r.events
           /\ last = Op("new", "", 0, volume, r.err)
           /\ zeroVia = IF volume = 0 THEN "constructor" ELSE "none"
    /\ volumeAtMute = 0
    /\ fades = 0
    /\ callbacks = <<>>
    /\ requested = {}
    /\ superseded = {}

\* What a caller observes of an operation through getVolume(): whether it
\* brought the volume to 0, and from which volume.
Observe(op, r) ==
    LET before == getVolume(vn)
        after == getVolume(r.node)
    IN /\ zeroVia' = IF after = 0 /\ before > 0 THEN op ELSE zeroVia
       /\ volumeAtMute' = IF after = 0 /\ before > 0 THEN before ELSE volumeAtMute

NodeStep(op, value, r) ==
    /\ vn' = r.node
    /\ events' = r.events
    /\ last' = Op(op, "", 0, value, r.err)
    /\ Observe(op, r)
    /\ UNCHANGED <<mixerVars, fades, callbacks, requested, superseded>>

SetVolume(value) == NodeStep("setVolume", value, setVolume(vn, value))
Mute == NodeStep("mute", 0, mute(vn))
Unmute == NodeStep("unmute", 0, unmute(vn))

\* Fades: targets and durations a caller passes, with or without onComplete.
FadeTargets == {0, FadeOne, 2 * FadeOne}
FadeDurations == {1, 2}

\* The callback passed to the next fade: a fresh function, or none.
Callback(given) == IF given THEN fades + 1 ELSE 0

FadeStep(op, given, n) ==
    /\ fades < MaxFades
    /\ fades' = fades + 1
    /\ requested' = requested \cup ({Callback(given)} \ {0})
    /\ vn' = n
    /\ superseded' = superseded \cup {t.callback : t \in vn.timers}
    /\ events' = <<>>
    /\ last' = Op(op, "", 0, 0, "none")
    /\ UNCHANGED <<mixerVars, zeroVia, volumeAtMute, callbacks>>

FadeTo(value, duration, given) ==
    FadeStep("fadeTo", given, fadeTo(vn, value, duration, Callback(given)))
FadeOut(duration, given) ==
    FadeStep("fadeOut", given, fadeOut(vn, duration, Callback(given)))
FadeIn(duration, given) ==
    FadeStep("fadeIn", given, fadeIn(vn, duration, Callback(given)))

\* Time passes by one tick while something is scheduled; the callbacks that
\* are due are invoked.
SeqOfSet(set) ==
    IF set = {} THEN <<>> ELSE <<(CHOOSE t \in set : TRUE).callback>>

Tick ==
    /\ vn.ramp # NoRamp \/ vn.timers # {}
    /\ vn' = advance(vn)
    /\ callbacks' = callbacks \o SeqOfSet(due(vn))
    /\ events' = <<>>
    /\ last' = Op("tick", "", 0, 0, "none")
    /\ UNCHANGED <<mixerVars, zeroVia, volumeAtMute, fades, requested, superseded>>

NodeNext ==
    \/ \E value \in VolumeInputs : SetVolume(value)
    \/ Mute
    \/ Unmute
    \/ \E value \in FadeTargets, duration \in FadeDurations, given \in BOOLEAN :
           FadeTo(value, duration, given)
    \/ \E duration \in FadeDurations, given \in BOOLEAN : FadeOut(duration, given)
    \/ \E duration \in FadeDurations, given \in BOOLEAN : FadeIn(duration, given)
    \/ Tick

NodeSpec == NodeInit /\ [][NodeNext]_vars


\* ------------------------------------------------------------------ claims
\* The registered instances whose channel is c, in registry order.
OnChannel(reg, c) == SelectSeq(reg, LAMBDA p : p.channel = c)

\* The elements of a sequence, and the number of events of one type.
Elements(seq) == {seq[i] : i \in 1..Len(seq)}
Count(ev, type) == Len(SelectSeq(ev, LAMBDA e : e.type = type))

\* The registered channel a selector denotes: the instance itself, or the
\* channel registered under the name; Undefined for anything else.
ChannelOf(channel) ==
    IF channel.kind = "Channel" THEN channel
    ELSE IF channel.kind = "string" /\ channel.name \in DOMAIN channelsByName
    THEN channelsByName[channel.name]
    ELSE Undefined

\* What C1 asks of every state, and of every step that is a play.
C1_AtMostOne ==
    \A c \in getChannels :
        c.type = "monophonic" => Len(OnChannel(playingSounds, c)) <= 1

C1_PlayStep ==
    \A name \in SoundNameInputs, channel \in ChannelInputs :
        LET c == ChannelOf(channel) IN
        (/\ last'.op = "play" /\ last'.err = "none" /\ c.type = "monophonic"
         /\ Play(name, channel))
        => /\ Refs(OnChannel(playingSounds', c)) = <<constructed'>>
           /\ constructed' = constructed + 1
           /\ Elements(Refs(OnChannel(playingSounds, c)))
                  \cap Elements(Refs(playingSounds')) = {}
           /\ events'[Len(events')] = PlayingSoundsUpdated(playingSounds')
           /\ Len(events') = Len(OnChannel(playingSounds, c)) + 1

\* C1: every monophonic channel has at most one registered PlayingSound, and
\* after a successful play on a monophonic channel c the only registered
\* instance on c is the one play just constructed: the earlier ones on c
\* were removed, and removed before the new one was registered.
C1_MonophonicSoleSurvivor == []C1_AtMostOne /\ [][C1_PlayStep]_vars

\* A play on a monophonic channel has just stolen the voice of an earlier one.
C1_Witness ==
    /\ last.op = "play" /\ last.err = "none"
    /\ Len(events) = 2
    /\ \E c \in getChannels :
          /\ c.type = "monophonic"
          /\ Refs(OnChannel(playingSounds, c)) = <<last.target>>
          /\ last.target > 1

\* C2: no PlayingSound instance appears twice in the registry.
C2_NoDuplicates ==
    \A i, j \in 1..Len(playingSounds) :
        playingSounds[i].id = playingSounds[j].id => i = j

\* A stop has just removed one of several registered instances.
C2_Witness ==
    /\ last.op = "stop" /\ last.err = "none"
    /\ Len(playingSounds) >= 2


\* What C3 asks of a step that is a stop() right after a stop() of the same instance.
C3_SecondStopStep ==
    \A p \in Constructed :
        (last.op = "stop" /\ last.target = p /\ Stop(p))
        => /\ playingSounds' = playingSounds
           /\ last'.err = "none"

\* C3: a second stop() on the same PlayingSound, right after the first,
\* leaves the registry as the first left it and raises no error.
C3_SecondStopIsQuiet == [][C3_SecondStopStep]_vars

\* What C4 asks of every step that is a removePlayingSound.
C4_RemoveStep ==
    \A p \in Constructed :
        (last'.op = "removePlayingSound" /\ RemovePlayingSound(p))
        => IF p \in Elements(Refs(playingSounds))
           THEN /\ last'.err = "none"
                /\ playingSounds' = SelectSeq(playingSounds, LAMBDA q : q.id # p)
                /\ Len(playingSounds') = Len(playingSounds) - 1
                /\ Count(events', "PLAYING_SOUNDS_UPDATED") = 1
                /\ Len(events') = 1
           ELSE /\ last'.err = "NotRegistered"
                /\ playingSounds' = playingSounds
                /\ events' = <<>>

\* C4: removePlayingSound(p) of an unregistered p fails with NotRegistered,
\* changes nothing and dispatches nothing; of a registered p it removes that
\* one entry and dispatches PLAYING_SOUNDS_UPDATED once.
C4_ExactlyOnceRemoval == [][C4_RemoveStep]_vars

\* removePlayingSound has just been refused for an instance that is no
\* longer registered, while others still are.
C4_Witness ==
    /\ last.op = "removePlayingSound" /\ last.err = "NotRegistered"
    /\ last.target \notin Elements(Refs(playingSounds))
    /\ playingSounds # <<>>

\* What C5 asks of every step that is a play.
C5_PlayStep ==
    \A name \in SoundNameInputs, channel \in ChannelInputs :
        (last'.op = "play" /\ Play(name, channel))
        => /\ name \notin SoundNames => last'.err = "SampleNotFound"
           /\ (/\ name \in SoundNames
               /\ channel.kind = "string"
               /\ channel.name \notin DOMAIN channelsByName)
              => last'.err = "ChannelNotFound"
           /\ last'.err # "none"
              => /\ playingSounds' = playingSounds
                 /\ constructed' = constructed
                 /\ events' = <<>>

\* C5: play of an unknown sound fails with SampleNotFound (also when the
\* channel is unknown too), play on a channel name that is not registered
\* fails with ChannelNotFound, and a failed play constructs and registers
\* nothing, stops nothing and dispatches nothing.
C5_UnknownSoundOrChannel == [][C5_PlayStep]_vars

\* What C6 asks of every step that is a stopAll.
C6_StopAllStep ==
    \A channel \in ChannelInputs :
        LET c == ChannelOf(channel) IN
        (last'.op = "stopAll" /\ StopAll(channel))
        => /\ channel = Undefined
              => /\ last'.err = "none"
                 /\ playingSounds' = <<>>
                 /\ Len(events') = Len(playingSounds)
           /\ c \in getChannels
              => /\ last'.err = "none"
                 /\ playingSounds' = SelectSeq(playingSounds, LAMBDA p : p.channel # c)
                 /\ Len(events') = Len(OnChannel(playingSounds, c))

\* C6: stopAll({channel: c}), c a registered channel given by name or by
\* instance, stops and deregisters exactly the registered instances whose
\* channel is c and keeps the others registered in the same order; stopAll()
\* without a selector empties the registry. Every stopped instance is
\* announced by one PLAYING_SOUNDS_UPDATED.
C6_StopAllByChannel == [][C6_StopAllStep]_vars

\* A stopAll on one channel has just stopped something while an instance on
\* the master bus and one on another channel stay registered.
C6_Witness ==
    /\ last.op = "stopAll" /\ last.err = "none"
    /\ events # <<>>
    /\ \E i, j \in 1..Len(playingSounds) :
          /\ playingSounds[i].channel = Undefined
          /\ playingSounds[j].channel \in getChannels

\* What C7 asks of every step that is a createChannel.
C7_CreateStep ==
    \A name \in ChannelNameInputs, type \in ChannelTypes, volume \in VolumeInputs :
        (last'.op = "createChannel" /\ CreateChannel(name, type, volume))
        => /\ name = "" => last'.err = "InvalidArgument"
           /\ name \in DOMAIN channelsByName => last'.err = "DuplicateChannel"
           /\ last'.err # "none"
              => /\ channelsByName' = channelsByName
                 /\ channelVolumeNodes' = channelVolumeNodes
                 /\ Count(events', "CHANNELS_UPDATED") = 0
           /\ last'.err = "none"
              => /\ name \notin DOMAIN channelsByName
                 /\ DOMAIN channelsByName' = DOMAIN channelsByName \cup {name}
                 /\ channelsByName'[name] = ChannelObj(name, type)
                 /\ \A k \in DOMAIN channelsByName :
                        /\ channelsByName'[k] = channelsByName[k]
                        /\ channelVolumeNodes'[k] = channelVolumeNodes[k]
                 /\ Count(events', "CHANNELS_UPDATED") = 1

\* C7: createChannel(name) is rejected with InvalidArgument for the blank
\* name and with DuplicateChannel for a registered name; a rejected call
\* leaves the registered channels as they were and dispatches no
\* CHANNELS_UPDATED; a successful call adds exactly the one channel and
\* dispatches CHANNELS_UPDATED exactly once.
C7_CreateChannelRejections == [][C7_CreateStep]_vars

\* createChannel has just been refused for a name that is registered.
C7_Witness ==
    /\ last.op = "createChannel" /\ last.err = "DuplicateChannel"
    /\ last.name \in DOMAIN channelsByName
    /\ Cardinality(DOMAIN channelsByName) = 2


\* What C8 asks of every step that is a setVolume.
C8_SetVolumeStep ==
    \A value \in VolumeInputs :
        (last'.op = "setVolume" /\ SetVolume(value))
        => IF value >= 0
           THEN /\ last'.err = "none"
                /\ getVolume(vn') = value
           ELSE /\ last'.err = "InvalidArgument"
                /\ vn' = vn
                /\ events' = <<>>

\* C8: setVolume(v) with v >= 0 makes getVolume() return v; with v < 0 it
\* fails with InvalidArgument, leaves the volume, the remembered restore
\* target and the fade volume as they were and dispatches nothing; the
\* volume is never negative.
C8_SetVolumeGetVolume == [](getVolume(vn) >= 0) /\ [][C8_SetVolumeStep]_vars

\* setVolume has just been refused for a negative volume on a controller
\* whose volume differs from the default.
C8_Witness ==
    /\ last.op = "setVolume" /\ last.value < 0 /\ last.err = "InvalidArgument"
    /\ getVolume(vn) > 1

\* What C9 asks of a mute at a volume above 0 and of the unmute after a mute.
C9_MuteStep ==
    (last'.op = "mute" /\ Mute /\ getVolume(vn) > 0) => getVolume(vn') = 0

C9_UnmuteStep ==
    (/\ last'.op = "unmute" /\ Unmute
     /\ last.op = "mute" /\ zeroVia = "mute" /\ getVolume(vn) = 0)
    => /\ volumeAtMute > 0
       /\ getVolume(vn') = volumeAtMute

\* C9: from a volume v > 0, mute() makes getVolume() return 0, and the
\* unmute() that follows makes it return v again, however often the pair is
\* repeated.
C9_MuteUnmuteRoundTrip == [][C9_MuteStep /\ C9_UnmuteStep]_vars

\* An unmute has just restored the volume 2, other than the default, that
\* the controller had when it was muted.
C9_Witness ==
    /\ last.op = "unmute" /\ events # <<>>
    /\ zeroVia = "mute" /\ volumeAtMute = 2
    /\ getVolume(vn) = 2
    /\ vn.volumeValueBeforeMute = {2}

\* What C10 asks of every step that is an unmute at volume 0.
C10_UnmuteStep ==
    (last'.op = "unmute" /\ Unmute /\ getVolume(vn) = 0)
    => /\ getVolume(vn') > 0
       /\ zeroVia = "mute" => getVolume(vn') = volumeAtMute
       /\ zeroVia \in {"setVolume", "constructor"} => getVolume(vn') = 1

\* C10: unmute() at volume 0 sets a volume greater than 0: the one mute()
\* replaced when the volume became 0 through mute(), and 1 when it became 0
\* through setVolume(0) or through construction with volume 0.
C10_UnmuteRestoresNonZero == [][C10_UnmuteStep]_vars

\* An unmute has just restored 1 after setVolume(0) on a controller that had
\* been muted at another volume earlier.
C10_Witness ==
    /\ last.op = "unmute" /\ events # <<>>
    /\ zeroVia = "setVolume"
    /\ volumeAtMute > 1
    /\ getVolume(vn) = 1

\* What C11 asks of one step: starting a fade invokes nothing; a callback is
\* invoked only by the passing of time, only for the fade started last, only
\* at the tick that ends its ramp on its target, and not a second time; and
\* the tick that ends a ramp started with a callback does invoke it.
C11_Step ==
    /\ fades' # fades => callbacks' = callbacks
    /\ callbacks' # callbacks =>
          /\ last'.op = "tick"
          /\ callbacks' = Append(callbacks, fades)
          /\ fades \notin Elements(callbacks)
          /\ vn.ramp.elapsed + 1 = vn.ramp.duration
          /\ vn'.ramp = NoRamp
          /\ getFadeVolume(vn') = vn.ramp.target
    /\ (fades \in requested /\ vn.ramp.elapsed + 1 = vn.ramp.duration
           /\ last'.op = "tick")
          => callbacks' = Append(callbacks, fades)

VolumeStage(n) == <<n.volume, n.volumeValueBeforeMute>>
FadeStage(n) == <<n.fadeVolume, n.ramp, n.timers>>

VolumeOps == {"setVolume", "mute", "unmute"}
FadeOps == {"fadeTo", "fadeIn", "fadeOut"}

C12_Step ==
    /\ last'.op \in VolumeOps =>
          /\ FadeStage(vn') = FadeStage(vn)
          /\ getFadeVolume(vn') = getFadeVolume(vn)
          /\ callbacks' = callbacks
    /\ last'.op \in FadeOps =>
          /\ VolumeStage(vn') = VolumeStage(vn)
          /\ getVolume(vn') = getVolume(vn)
          /\ events' = <<>>

\* C12: setVolume, mute and unmute never change the fade volume or a fade in
\* flight, and fadeTo, fadeIn and fadeOut never change the volume or the
\* remembered restore target, in any interleaving of these operations.
C12_StagesIndependent == [][C12_Step]_vars

\* A mute took effect while a fade with a callback was half way.
C12_Witness ==
    /\ last.op = "mute"
    /\ zeroVia = "mute"
    /\ getVolume(vn) = 0
    /\ vn.ramp.elapsed = 1
    /\ vn.ramp.duration = 2
    /\ vn.timers # {}

\* The selectors that mean the registered channel c: its name and itself.
SelectorsOf(c) == {Str(c.name), c}

\* An outcome leaves the master controller and every channel but c alone.
OnlyOn(c, r) ==
    /\ r.master = vn
    /\ \A d \in getChannels \ {c} : r.nodes[d.name] = channelVolumeNodes[d.name]

C13_BySelector(c, channel) ==
    /\ \A value \in MixerVolumes :
          /\ channelsSetVolume(value, channel) = channelSetVolume(c, value)
          /\ OnlyOn(c, channelsSetVolume(value, channel))
          /\ channelSetVolume(c, value).nodes[c.name] =
                 setVolume(channelVolumeNodes[c.name], value).node
    /\ channelsSetMute(TRUE, channel) = channelMute(c)
    /\ channelsSetMute(FALSE, channel) = channelUnmute(c)
    /\ channelMute(c).nodes[c.name] = mute(channelVolumeNodes[c.name]).node
    /\ channelUnmute(c).nodes[c.name] = unmute(channelVolumeNodes[c.name]).node
    /\ \A value \in BOOLEAN : OnlyOn(c, channelsSetMute(value, channel))
    /\ channelsGetVolume(channel) = channelGetVolume(c)
    /\ channelGetVolume(c).value = getVolume(channelVolumeNodes[c.name])

C13_NoSelector ==
    /\ \A value \in MixerVolumes :
          channelsSetVolume(value, Undefined) =
              LET o == setVolume(vn, value)
              IN MixOutcome(o.node, channelVolumeNodes, o.events, o.err, 0)
    /\ channelsSetMute(TRUE, Undefined) =
          MixOutcome(mute(vn).node, channelVolumeNodes, mute(vn).events, "none", 0)
    /\ channelsSetMute(FALSE, Undefined) =
          MixOutcome(unmute(vn).node, channelVolumeNodes, unmute(vn).events, "none", 0)
    /\ channelsGetVolume(Undefined) =
          MixOutcome(vn, channelVolumeNodes, <<>>, "none", getVolume(vn))

Unregistered == ChannelNameInputs \ DOMAIN channelsByName

\* One of the five operations, called with the name `name`.
C14_Call(name) ==
    \/ GetChannel(name)
    \/ StopAll(Str(name))
    \/ \E value \in MixerVolumes : ChannelsSetVolume(value, Str(name))
    \/ ChannelsGetVolume(Str(name))
    \/ \E value \in BOOLEAN : ChannelsSetMute(value, Str(name))

\* C14: for every channel name that no successful createChannel has
\* registered, getChannel, stopAll, setVolume, getVolume and setMute fail with
\* ChannelNotFound and change no state: no sound is stopped, no volume is
\* changed, nothing is applied to the master instead.
C14_UnknownChannelName ==
    [][\A name \in Unregistered :
          C14_Call(name) =>
              /\ last'.err = "ChannelNotFound"
              /\ events' = <<>>
              /\ UNCHANGED <<mixerVars, vn>>]_vars

\* What C15 asks of one step, for a name registered before it.
C15_Kept(name) ==
    /\ name \in DOMAIN channelsByName'
    /\ getChannel(name)' = Resolved(channelsByName[name], "none")
    /\ channelsByName[name] \in getChannels'
    /\ getChannels \subseteq getChannels'

\* C15: channels are never removed or replaced: once createChannel(name) has
\* succeeded, after any operation, failed ones included, getChannel(name)
\* returns that same Channel and getChannels() contains it, so the set of
\* registered channels only grows.
C15_ChannelsOnlyGrow ==
    [][\A name \in DOMAIN channelsByName : C15_Kept(name)]_vars

\* Two channels of different types are registered, sounds are playing, and
\* an operation has just failed.
C15_Witness ==
    /\ DOMAIN channelsByName = {"fx", "music"}
    /\ channelsByName["fx"].type # channelsByName["music"].type
    /\ getChannel("fx").value = channelsByName["fx"]
    /\ playingSounds # <<>>
    /\ last.op = "stopAll" /\ last.err = "ChannelNotFound"

\* What C16 asks of one step: mute at volume 0, unmute at a volume that is
\* not 0 and setVolume(0) at volume 0 leave volume and restore target alone
\* and dispatch nothing; and an unmute that follows such calls on an
\* explicitly muted controller restores the volume the mute found.
C16_Step ==
    /\ ((last'.op = "mute" /\ Mute /\ getVolume(vn) = 0)
         \/ (last'.op = "unmute" /\ Unmute /\ getVolume(vn) # 0)
         \/ (last'.op = "setVolume" /\ SetVolume(0) /\ getVolume(vn) = 0))
        => /\ VolumeStage(vn') = VolumeStage(vn)
           /\ events' = <<>>
           /\ last'.err = "none"
    /\ (/\ last'.op = "unmute" /\ Unmute
        /\ zeroVia = "mute" /\ getVolume(vn) = 0
        /\ last.op \in {"mute", "setVolume"} /\ events = <<>>)
        => getVolume(vn') = volumeAtMute /\ volumeAtMute > 0

\* C16: mute() at volume 0 and unmute() at a non-zero volume are no-ops:
\* volume and restore target stay and nothing is notified. mute(); mute();
\* unmute() restores the volume from before the first mute, and after an
\* explicit mute a setVolume(0) does not overwrite the restore target.
C16_MuteUnmuteNoOps == [][C16_Step]_vars

\* A second mute has just done nothing on a controller that an explicit mute
\* had silenced from the highest volume.
C16_Witness ==
    /\ last.op = "mute" /\ events = <<>>
    /\ zeroVia = "mute" /\ volumeAtMute = MaxVolume
    /\ getVolume(vn) = 0
    /\ vn.volumeValueBeforeMute = {MaxVolume}

\* What C17 asks of one step that is a setVolume, a mute or an unmute.
C17_Step ==
    last'.op \in VolumeOps =>
        /\ Len(events') = Count(events', "VOLUME_CHANGE")
        /\ Count(events', "VOLUME_CHANGE") =
               IF getVolume(vn') # getVolume(vn) THEN 1 ELSE 0
        /\ last'.err # "none" => events' = <<>> /\ getVolume(vn') = getVolume(vn)

\* C17: every call of setVolume, mute or unmute that changes what getVolume()
\* returns dispatches exactly one VOLUME_CHANGE, and a call that does not
\* change it, or that fails, dispatches none.
C17_OneVolumeChangePerChange == [][C17_Step]_vars

\* A setVolume has just raised the volume to the highest value, with one event.
C17_Witness ==
    /\ last.op = "setVolume" /\ last.err = "none" /\ last.value = MaxVolume
    /\ getVolume(vn) = MaxVolume
    /\ Count(events, "VOLUME_CHANGE") = 1

\* What a listener of the event reads from getVolume() against what the
\* operation leaves behind.
SeenAfterChange(e, n) == e.type = "VOLUME_CHANGE" => e.seen = getVolume(n)

\* C18: every notification is delivered only after the state change it
\* reports has been applied: a VOLUME_CHANGE listener reads the new volume
\* from getVolume(), for setVolume, mute and unmute alike.
C18_NotifiedAfterChange ==
    [][last'.op \in VolumeOps =>
          \A i \in 1..Len(events') : SeenAfterChange(events'[i], vn')]_vars

\* The registry lists instances in the order they were played: ids are
\* given in the order of construction.
InPlayOrder(reg) == \A i, j \in 1..Len(reg) : i < j => reg[i].id < reg[j].id

\* The instances of one registry that are also in another, in their order.
Surviving(reg, other) == SelectSeq(reg, LAMBDA p : p \in Elements(other))

C19_Step ==
    /\ InPlayOrder(playingSounds')
    /\ (last'.op = "play" /\ last'.err = "none") =>
          /\ playingSounds' # <<>>
          /\ playingSounds'[Len(playingSounds')].id = last'.target
          /\ last'.target \notin Elements(Refs(playingSounds))
    /\ Surviving(playingSounds, playingSounds') = Surviving(playingSounds', playingSounds)
    /\ last'.op = "getPlayingSounds" =>
          /\ getPlayingSounds(playingSounds).list = playingSounds
          /\ last'.value = Len(playingSounds)
          /\ playingSounds' = playingSounds

\* C19: getPlayingSounds() lists the registered instances in the order they
\* were played: a new instance goes to the end, a removal keeps the order of
\* the others, and the sequence returned is a copy, so changing it does not
\* change the registry.
C19_PlayOrder == [][C19_Step]_vars

\* The second of three instances was stopped: the first and the third remain.
C19_Witness ==
    /\ last.op = "stop" /\ last.err = "none" /\ last.target = 2
    /\ Refs(playingSounds) = <<1, 3>>
    /\ getPlayingSounds(playingSounds).list = playingSounds

\* C20: the fade volume stays within 0..1 (0..FadeOne in quarters) after any
\* fadeTo, fadeIn or fadeOut, whatever the target and whatever the fade
\* volume the controller was constructed with.
C20_FadeVolumeInRange ==
    last.op \in FadeOps \cup {"tick"} =>
        /\ getFadeVolume(vn) >= 0
        /\ getFadeVolume(vn) <= FadeOne

====
